---- MODULE Spec2Model ----
(***************************************************************************)
(* WavePath (src/src/index.ts, the requestAnimationFrame driver, lines     *)
(* 393-822): a multi-layer open/close transition.  One instance owns a     *)
(* list of path elements (layers), a height buffer per layer, a wave       *)
(* profile that is rolled once per run, and a frame-clock driven run that  *)
(* is cancelled by bumping a run token.                                    *)
(*                                                                         *)
(* Numbers.  Time is counted in units of 250 ms (the default delayPaths),  *)
(* so durationSec = 2 is a duration of 0.5 s.  Progress values,            *)
(* easing values and wave samples are fixed-point thousandths; heights are *)
(* thousandths of a percent (100000 = PERCENT_MAX).  The easing functions  *)
(* are tabulated at the progress values the time grid produces, and at     *)
(* 0.501 for two frames that are one thousandth of progress apart.  The    *)
(* Float32 rounding of the typed arrays is not modelled.                   *)
(***************************************************************************)
EXTENDS Integers, Sequences, FiniteSets, TLC

\* ---- bounds of the model ----
MaxLayers == 2
MaxToken == 7
MaxDt == 2

\* ---- inputs the model draws from ----
PointCounts == {4}
\* waveAmplitude and isOpened as passed to the constructor
Options == {[waveAmplitude |-> 30, isOpened |-> FALSE],
            [waveAmplitude |-> 100, isOpened |-> TRUE]}
Delays == {1}
Durations == {2}
Phases == {2, 7}

\* ---- program constants ----
PERCENT_MIN == 0
PERCENT_MAX == 100
RIPPLE_FREQ == 2
RIPPLE_GAIN == 500
NoRaf == 0
NaN == 0 - 1

Abs(x) == IF x < 0 THEN 0 - x ELSE x

Min2(a, b) == IF a <= b THEN a ELSE b

Max2(a, b) == IF a >= b THEN a ELSE b

\* a * b of two fixed-point thousandths, rounded toward zero
Mul(a, b) == IF a * b >= 0 THEN (a * b) \div 1000 ELSE 0 - ((0 - a * b) \div 1000)

SetMin(S) == CHOOSE x \in S : \A y \in S : x <= y

RECURSIVE SqrtBetween(_, _, _)
SqrtBetween(x, lo, hi) ==
  IF hi - lo <= 1 THEN lo
  ELSE LET mid == (lo + hi) \div 2
       IN  IF mid * mid <= x THEN SqrtBetween(x, mid, hi) ELSE SqrtBetween(x, lo, mid)

\* the integer square root of x, for x up to a million
ISqrt(x) == SqrtBetween(x, 0, 1001)

clamp(n, lo, hi) == IF n = NaN THEN NaN ELSE Min2(hi, Max2(lo, n))

clamp01(n) == IF n <= 0 THEN 0 ELSE IF n >= 1000 THEN 1000 ELSE n

lerp(a, b, t) == a + ((b - a) * t) \div 1000

\* 0.5 * (2x)^1.6 below one half, mirrored above (k = LIFT_EASE_POW = 1.6)
easeInOutPow(t) ==
  LET x == clamp01(t)
  IN  CASE x = 0 -> 0
        [] x = 250 -> 165
        [] x = 500 -> 500
        [] x = 501 -> 502
        [] x = 750 -> 835
        [] x = 1000 -> 1000

\* 0.5 - 0.5 * cos(pi * x)
easeInOutCos(t) ==
  LET x == clamp01(t)
  IN  CASE x = 0 -> 0
        [] x = 250 -> 146
        [] x = 500 -> 500
        [] x = 501 -> 502
        [] x = 750 -> 854
        [] x = 1000 -> 1000

\* sin(pi * x) ^ 0.85 (shape = BELL_SHAPE), at the values easeInOutCos returns
bellCurve(t) ==
  LET x == clamp01(t)
  IN  CASE x = 0 -> 0
        [] x = 146 -> 502
        [] x = 500 -> 1000
        [] x = 502 -> 1000
        [] x = 854 -> 502
        [] x = 1000 -> 0

motionProfile(p) ==
  LET t == clamp01(p)
  IN  [pos |-> easeInOutPow(t), bell |-> bellCurve(easeInOutCos(clamp01(t)))]

\* sin of k twelfths of a turn
Sin12(k) ==
  LET m == k % 12
  IN  CASE m = 0 -> 0
        [] m = 1 -> 500
        [] m = 2 -> 866
        [] m = 3 -> 1000
        [] m = 4 -> 866
        [] m = 5 -> 500
        [] m = 6 -> 0
        [] m = 7 -> 0 - 500
        [] m = 8 -> 0 - 866
        [] m = 9 -> 0 - 1000
        [] m = 10 -> 0 - 866
        [] m = 11 -> 0 - 500

\* tValues[i] * PI * FREQ as twelfths of a turn (i is 1-based)
waveAngle(i, n) == (6 * RIPPLE_FREQ * (i - 1)) \div (n - 1)

\* sin of k fifths of a turn (6 points) and of k sevenths of a turn (8 points)
SinNth(k, m) ==
  CASE m = 5 -> <<0, 951, 588, 0 - 588, 0 - 951, 0>>[k + 1]
    [] m = 7 -> <<0, 782, 975, 434, 0 - 434, 0 - 975, 0 - 782, 0>>[k + 1]

\* the point counts whose angles are whole twelfths of a turn
twelfths(n) == (6 * RIPPLE_FREQ) % (n - 1) = 0

\* Math.sin(tValues[i] * PI * FREQ + phase); phase is in twelfths of a turn,
\* and 0 for the point counts whose angles are fifths or sevenths
waveSin(i, n, phase) ==
  IF twelfths(n) THEN Sin12(waveAngle(i, n) + phase) ELSE SinNth(i - 1, n - 1)

\* envValues[i] = (1 - |2t - 1|) ^ ENV_POWER, ENV_POWER = 0.5
envValues(i, n) ==
  LET t2 == (2000 * (i - 1)) \div (n - 1)
      envRaw == 1000 - Abs(t2 - 1000)
  IN  ISqrt(envRaw * 1000)

\* rollWaveProfile: a write past the end of the typed array is dropped
rollWaveProfile(wave, n, phase) ==
  IF Len(wave) = 0 THEN <<>>
  ELSE [i \in 1..Len(wave) |->
          IF i <= n THEN Mul(waveSin(i, n, phase), envValues(i, n)) ELSE wave[i]]

\* this.baseWave[i]: undefined past the end of the typed array
waveAt(wave, i) == IF i <= Len(wave) THEN wave[i] ELSE NaN

fillWaveAtProgress(out, p, wave, n, amp) ==
  LET pp == IF p <= 0 THEN 0 ELSE IF p >= 1000 THEN 1000 ELSE p
      mp == motionProfile(pp)
      lift == lerp(PERCENT_MAX * 1000, PERCENT_MIN * 1000, mp.pos)
      rf0 == Mul(amp * RIPPLE_GAIN, mp.bell)
      maxUp == PERCENT_MAX * 1000 - lift
      maxDown == lift - PERCENT_MIN * 1000
      limits == {IF waveAt(wave, i) > 0
                   THEN (maxUp * 1000) \div waveAt(wave, i)
                   ELSE (maxDown * 1000) \div (0 - waveAt(wave, i)) :
                 i \in {k \in 1..n : waveAt(wave, k) # 0 /\ waveAt(wave, k) # NaN}}
      rippleFactor == IF limits = {} THEN rf0
                      ELSE Min2(rf0, Max2(0, (SetMin(limits) * 98) \div 100))
  IN  [i \in 1..Len(out) |->
         IF i > n THEN out[i]
         ELSE IF waveAt(wave, i) = NaN THEN NaN
         ELSE clamp(lift + Mul(waveAt(wave, i), rippleFactor),
                    PERCENT_MIN * 1000, PERCENT_MAX * 1000)]

\* Math.round(n * 10) / 10 printed; tenths is the rounded value times ten
fmtTenths(tenths) ==
  IF tenths % 10 = 0 THEN ToString(tenths \div 10)
  ELSE ToString(tenths \div 10) \o "." \o ToString(tenths % 10)

fmtY(y) == IF y = NaN THEN "NaN" ELSE fmtTenths((y + 50) \div 100)

segmentCount(n) == Max2(1, n - 1)

\* fmt((j + 1) * segmentStep), j 1-based here
pPositions(j, n) ==
  fmtTenths((2000 * j + segmentCount(n)) \div (2 * segmentCount(n)))

\* faulty variant: the control point sits on its anchor
cpPositionsOnAnchor(j, n) == pPositions(j, n)

\* fmt(pVal - segmentStep / 2)
cpPositions(j, n) ==
  fmtTenths((1000 * (2 * j - 1) + segmentCount(n)) \div (2 * segmentCount(n)))

RECURSIVE join(_)
join(parts) ==
  IF Len(parts) = 0 THEN ""
  ELSE IF Len(parts) = 1 THEN parts[1]
  ELSE parts[1] \o " " \o join(Tail(parts))

RECURSIVE smoothSegments(_, _, _)
smoothSegments(pointStrings, j, n) ==
  IF j > segmentCount(n) THEN <<>>
  ELSE <<"S", cpPositions(j, n), pointStrings[j + 1], pPositions(j, n), pointStrings[j + 1]>>
       \o smoothSegments(pointStrings, j + 1, n)

buildCubicPath(y, opened, n) ==
  LET pointStrings == [j \in 1..n |-> fmtY(y[j])]
      dParts == <<"M", "0", pointStrings[1], "C", cpPositions(1, n), pointStrings[1],
                  cpPositions(1, n), pointStrings[2], pPositions(1, n), pointStrings[2]>>
                \o smoothSegments(pointStrings, 2, n)
                \o <<"V", IF opened THEN "100" ELSE "0", "H", "0">>
  IN  join(dParts)

flatTopPoints(n) == [j \in 1..n |-> 0]

\* ---- state ----
VARIABLES
  pointCount,   \* readonly options, normalised by the constructor
  pathDelay,
  durationSec,
  amplitude,
  docSvg,       \* the document: whether svgEl resolves to an element
  docPaths,     \* the document: how many elements pathEl matches inside it
  domD,         \* the document: the d attribute of each of those elements
  svg,          \* TRUE when this.svg is an element, FALSE when it is null
  pathCount,
  prevPathD,    \* last string written per layer
  yBuffers,     \* height buffer per layer
  baseWave,     \* wave profile of the run
  isOpenState,
  rafId,        \* handle of the pending frame callback, NoRaf for null
  animToken,
  rafQueue,     \* the host's animation frame callbacks: the tick closures
  promises,     \* per accepted run, the promise playProgress awaits
  stopped,      \* history: stopIfActive cancelled a run; no run, init or destroy since
  acceptedTarget, \* history: the target of the last call that started a run, if any
  last          \* history: what the last operation did

cfgVars == <<pointCount, pathDelay, durationSec, amplitude, docSvg, docPaths>>

instVars == <<svg, pathCount, prevPathD, yBuffers, baseWave, isOpenState, rafId, animToken>>

vars == <<cfgVars, instVars, domD, rafQueue, promises, stopped, acceptedTarget, last>>

Step(op) ==
  [op |-> op, accepted |-> FALSE, returned |-> FALSE, writes |-> 0, stale |-> FALSE,
   resolved |-> NoRaf, token |-> NoRaf, opened |-> FALSE, afterStop |-> FALSE, again |-> FALSE,
   localP |-> 0]

Init ==
  /\ pointCount \in PointCounts
  /\ pathDelay \in Delays
  /\ durationSec \in Durations
  /\ \E o \in Options : amplitude = o.waveAmplitude /\ isOpenState = o.isOpened
  /\ docSvg \in BOOLEAN
  /\ docPaths \in 0..MaxLayers
  /\ (~docSvg => docPaths = 0)
  /\ domD = IF docPaths = 0 THEN <<>> ELSE [i \in 1..docPaths |-> ""]
  /\ svg = FALSE
  /\ pathCount = 0
  /\ prevPathD = <<>>
  /\ yBuffers = <<>>
  /\ baseWave = [i \in 1..pointCount |-> 0]
  /\ rafId = NoRaf
  /\ animToken = 0
  /\ rafQueue = {}
  /\ promises = <<>>
  /\ stopped = FALSE
  /\ acceptedTarget = <<>>
  /\ last = Step("new")

\* faulty variant: the guard of open/close/toggle is missing
isAnimatingNever == FALSE

\* this.rafId != null
isAnimating == rafId # NoRaf

\* open, close, toggle, init, stopIfActive and destroy are taken between two
\* animation frames: a call made inside a frame commutes with the callbacks of
\* that frame that have not run yet, so this loses no state of the instance
betweenFrames == \A cb \in rafQueue : ~cb.due

\* faulty variant: the cancel does not bump the token
cancelAnimKeepsToken(delivered) ==
  [animToken |-> animToken,
   rafId |-> NoRaf,
   rafQueue |-> IF rafId # NoRaf /\ delivered
                THEN {cb \in rafQueue : cb.token # rafId} ELSE rafQueue]

\* cancelAnim: the token is bumped; cancelAnimationFrame is the host's, and the
\* callback it names is either dropped (delivered) or still fires later
cancelAnim(delivered) ==
  [animToken |-> animToken + 1,
   rafId |-> NoRaf,
   rafQueue |-> IF rafId # NoRaf /\ delivered
                THEN {cb \in rafQueue : cb.token # rafId} ELSE rafQueue]

\* the run that a cancel interrupts is marked with the operation that cancelled it
markCancelled(op) ==
  IF rafId # NoRaf /\ rafId \in DOMAIN promises /\ promises[rafId].cancelledBy = ""
  THEN [promises EXCEPT ![rafId].cancelledBy = op] ELSE promises

\* faulty variant: the attribute is written without a look at the cache
setPathDAlways(prev, attr, d) == [prev |-> d, attr |-> d, wrote |-> 1]

setPathD(prev, attr, d) ==
  IF prev = d THEN [prev |-> prev, attr |-> attr, wrote |-> 0]
  ELSE [prev |-> d, attr |-> d, wrote |-> 1]

\* setPathD(i, ds[i]) for every layer i of ds, on the caches prev and the elements dom
setAll(prev, dom, ds) ==
  [prev |-> IF Len(prev) = 0 THEN <<>>
            ELSE [i \in 1..Len(prev) |->
                    IF i <= Len(ds) THEN setPathD(prev[i], dom[i], ds[i]).prev ELSE prev[i]],
   dom |-> IF Len(dom) = 0 THEN <<>>
           ELSE [i \in 1..Len(dom) |->
                   IF i <= Len(ds) /\ i <= Len(prev)
                   THEN setPathD(prev[i], dom[i], ds[i]).attr ELSE dom[i]],
   wrote |-> Cardinality({i \in 1..Len(ds) : setPathD(prev[i], dom[i], ds[i]).wrote = 1})]

allocateCaches(count, n) ==
  [yBuffers |-> [i \in 1..count |-> [j \in 1..n |-> 0]],
   prevPathD |-> [i \in 1..count |-> ""]]

totalOf(count) == durationSec + pathDelay * (count - 1)

\* faulty variant: a closing run cascades in the order of an opening one
layerDelayOpening(i, opened, count) == pathDelay * (i - 1)

layerDelay(i, opened, count) == pathDelay * (IF opened THEN i - 1 ELSE count - i)

localP(tNow, i, opened, count) ==
  clamp01(((tNow - layerDelay(i, opened, count)) * 1000) \div durationSec)

\* renderAt(globalP) with globalP = elapsed / total: the new buffers and strings
renderAt(elapsed, total, opened, wave) ==
  LET tNow == Min2(Max2(elapsed, 0), total)
      y == [i \in 1..pathCount |->
              fillWaveAtProgress(yBuffers[i], localP(tNow, i, opened, pathCount),
                                 wave, pointCount, amplitude)]
  IN  [y |-> y, d |-> [i \in 1..pathCount |-> buildCubicPath(y[i], opened, pointCount)]]

\* faulty variant: the rest shape is built with the other flag
stableDFlipped(opened) == buildCubicPath(flatTopPoints(pointCount), ~opened, pointCount)

stableD(opened) == buildCubicPath(flatTopPoints(pointCount), opened, pointCount)

\* faulty variant: the references and the string cache are kept
resetDomRefsKeeps == [svg |-> svg, pathCount |-> pathCount, prevPathD |-> prevPathD]

\* resetDomRefs and resetCaches
resetDomRefs == [svg |-> FALSE, pathCount |-> 0, prevPathD |-> <<>>]

resetCaches == [yBuffers |-> <<>>, baseWave |-> <<>>]

\* ---- operations ----
init ==
  /\ animToken + 1 <= MaxToken
  /\ betweenFrames
  /\ \E delivered \in BOOLEAN :
       LET c == cancelAnim(delivered)
       IN  /\ animToken' = c.animToken
           /\ rafId' = c.rafId
           /\ rafQueue' = c.rafQueue
  /\ promises' = markCancelled("init")
  /\ stopped' = FALSE
  /\ IF docSvg /\ docPaths > 0
     THEN LET a == allocateCaches(docPaths, pointCount)
              w == setAll(a.prevPathD, domD, [i \in 1..docPaths |-> stableD(isOpenState)])
          IN  /\ svg' = TRUE
              /\ pathCount' = docPaths
              /\ yBuffers' = a.yBuffers
              /\ prevPathD' = w.prev
              /\ domD' = w.dom
              /\ last' = [Step("init") EXCEPT !.writes = w.wrote]
     ELSE /\ svg' = resetDomRefs.svg
          /\ pathCount' = resetDomRefs.pathCount
          /\ prevPathD' = resetDomRefs.prevPathD
          /\ last' = Step("init")
          /\ UNCHANGED <<yBuffers, domD>>
  /\ UNCHANGED <<cfgVars, acceptedTarget, baseWave, isOpenState>>

\* !this.svg || this.pathCount === 0
noLayers == ~svg \/ pathCount = 0

\* playProgress(opened), entered from open/close/toggle after isOpenState is set
playProgress(opened) ==
  IF noLayers
  THEN /\ last' = [Step("call") EXCEPT !.returned = TRUE, !.opened = opened]
       /\ UNCHANGED <<cfgVars, acceptedTarget, svg, pathCount, prevPathD, yBuffers, baseWave, rafId,
                      animToken, domD, rafQueue, promises, stopped>>
  ELSE /\ animToken + 2 <= MaxToken
       /\ \E phase \in Phases :
            LET c == cancelAnim(TRUE)
                token == c.animToken + 1
                wave == rollWaveProfile(baseWave, pointCount, phase)
                total == totalOf(pathCount)
                r == renderAt(0, total, opened, wave)
                w == setAll(prevPathD, domD, r.d)
            IN  /\ baseWave' = wave
                /\ animToken' = token
                /\ yBuffers' = r.y
                /\ prevPathD' = w.prev
                /\ domD' = w.dom
                /\ rafId' = token
                /\ rafQueue' = c.rafQueue \cup
                     {[token |-> token, opened |-> opened, total |-> total,
                       sinceStart |-> 0, due |-> FALSE]}
                /\ promises' = (token :> [resolved |-> 0, cancelledBy |-> ""]) @@ promises
                /\ last' = [Step("call") EXCEPT !.accepted = TRUE, !.writes = w.wrote,
                                                  !.opened = opened, !.afterStop = stopped]
       /\ stopped' = FALSE
       /\ acceptedTarget' = <<opened>>
       /\ UNCHANGED <<cfgVars, svg, pathCount>>

call(target) ==
  /\ betweenFrames
  /\ IF isAnimating
     THEN /\ last' = [Step("call") EXCEPT !.returned = TRUE, !.opened = target]
          /\ UNCHANGED <<cfgVars, acceptedTarget, instVars, domD, rafQueue, promises, stopped>>
     ELSE /\ isOpenState' = target
          /\ playProgress(target)

open == call(TRUE)

close == call(FALSE)

toggle == call(~isOpenState)

stopIfActive ==
  /\ animToken + 1 <= MaxToken
  /\ betweenFrames
  /\ \E delivered \in BOOLEAN :
       LET c == cancelAnim(delivered)
       IN  /\ animToken' = c.animToken
           /\ rafId' = c.rafId
           /\ rafQueue' = c.rafQueue
  /\ promises' = markCancelled("stopIfActive")
  /\ stopped' = (stopped \/ isAnimating)
  /\ last' = [Step("stopIfActive") EXCEPT !.again = (last.op = "stopIfActive")]
  /\ UNCHANGED <<cfgVars, acceptedTarget, svg, pathCount, prevPathD, yBuffers, baseWave, isOpenState, domD>>

destroy ==
  /\ animToken + 1 <= MaxToken
  /\ betweenFrames
  /\ \E delivered \in BOOLEAN :
       LET c == cancelAnim(delivered)
       IN  /\ animToken' = c.animToken
           /\ rafId' = c.rafId
           /\ rafQueue' = c.rafQueue
  /\ promises' = markCancelled("destroy")
  /\ svg' = resetDomRefs.svg
  /\ pathCount' = resetDomRefs.pathCount
  /\ prevPathD' = resetDomRefs.prevPathD
  /\ yBuffers' = resetCaches.yBuffers
  /\ baseWave' = resetCaches.baseWave
  /\ stopped' = FALSE
  /\ last' = [Step("destroy") EXCEPT !.again = (last.op = "destroy")]
  /\ UNCHANGED <<cfgVars, acceptedTarget, isOpenState, domD>>

\* faulty variant: every callback takes itself for stale
isStaleAlways(token, current) == TRUE

\* faulty variant: the token check is missing
isStaleNever(token, current) == FALSE

\* token !== this.animToken
isStale(token, current) == token # current

\* faulty variant: the run ends one time unit early
isTerminalEarly(elapsed, total) == elapsed + 1 >= total

\* p >= 1 with p = elapsed / totalMs
isTerminal(elapsed, total) == elapsed >= total

\* the host takes the due callback cb off its queue and runs it; the callback
\* requests a frame again or not
runsCallback(cb, again) ==
  rafQueue' = (rafQueue \ {cb}) \cup (IF again THEN {[cb EXCEPT !.due = FALSE]} ELSE {})

\* the frame callback of the run with token h fires; cb.sinceStart is now - start
tick(h) ==
  \E cb \in rafQueue :
    /\ cb.token = h
    /\ cb.due
    /\ IF isStale(cb.token, animToken)
       THEN /\ runsCallback(cb, FALSE)
            /\ last' = [Step("tick") EXCEPT !.stale = TRUE, !.token = h]
            /\ UNCHANGED <<cfgVars, acceptedTarget, instVars, domD, promises, stopped>>
       ELSE LET elapsed == cb.sinceStart
                r == renderAt(elapsed, cb.total, cb.opened, baseWave)
                w1 == setAll(prevPathD, domD, r.d)
                w2 == setAll(w1.prev, w1.dom, [i \in 1..pathCount |-> stableD(cb.opened)])
                step == [Step("tick") EXCEPT !.opened = cb.opened, !.token = h]
            IN  /\ yBuffers' = [i \in 1..Len(yBuffers) |->
                                  IF i <= pathCount THEN r.y[i] ELSE yBuffers[i]]
                /\ IF isTerminal(elapsed, cb.total)
                   THEN /\ rafId' = NoRaf
                        /\ prevPathD' = w2.prev
                        /\ domD' = w2.dom
                        /\ runsCallback(cb, FALSE)
                        /\ promises' = [promises EXCEPT ![h].resolved = @ + 1]
                        /\ last' = [step EXCEPT !.writes = w1.wrote + w2.wrote,
                                                !.resolved = h]
                   ELSE /\ rafId' = h
                        /\ prevPathD' = w1.prev
                        /\ domD' = w1.dom
                        /\ runsCallback(cb, TRUE)
                        /\ promises' = promises
                        /\ last' = [step EXCEPT !.writes = w1.wrote]
                /\ UNCHANGED <<cfgVars, acceptedTarget, svg, pathCount, baseWave, isOpenState, animToken,
                               stopped>>

\* the next animation frame begins dt time units later: every callback of the
\* previous frame has run, and every callback requested since is now due
advance(dt) ==
  /\ rafQueue # {}
  /\ \A cb \in rafQueue : ~cb.due
  /\ rafQueue' = {[cb EXCEPT !.sinceStart = @ + dt, !.due = TRUE] : cb \in rafQueue}
  /\ last' = Step("advance")
  /\ UNCHANGED <<cfgVars, acceptedTarget, instVars, domD, promises, stopped>>

Next ==
  \/ init
  \/ open
  \/ close
  \/ toggle
  \/ stopIfActive
  \/ destroy
  \/ \E h \in 1..MaxToken : tick(h)
  \/ \E dt \in 1..MaxDt : advance(dt)

Spec == Init /\ [][Next]_vars

\* ---- the claims ----

\* a run is active: its frame callback is pending and carries the current token
RunActive == \E cb \in rafQueue : cb.token = animToken

\* the number of times the promise of run t has been resolved
resolvedCount(t) == IF t \in DOMAIN promises THEN promises[t].resolved ELSE 0

\* the operation that cancelled run t, "" when none did
cancelledBy(t) == IF t \in DOMAIN promises THEN promises[t].cancelledBy ELSE ""

\* the string of the rest shape: render(all-zero heights, opened)
RestShape(opened) == buildCubicPath([j \in 1..pointCount |-> 0], opened, pointCount)

\* C1: while a run is active, a call of open, close or toggle starts no second
\* run: no new token, no new wave profile, no layer write, isOpened unchanged,
\* and the promise of the call resolves at once.
C1_CallDuringRunIsNoOp ==
  [][(RunActive /\ (open \/ close \/ toggle)) =>
       /\ UNCHANGED <<animToken, baseWave, domD, prevPathD, yBuffers, isOpenState,
                      rafId, rafQueue, promises>>
       /\ last'.returned
       /\ ~last'.accepted
       /\ last'.writes = 0]_vars

C1_Witness == RunActive /\ last.op = "call" /\ last.returned

\* C2: with at least one layer, the promise of an accepted run is resolved only
\* by the frame on which elapsed / total >= 1, and when it is resolved the driver
\* is idle and every layer has been written with the rest shape.
C2_ResolvedOnlyAtTerminalFrame ==
  [][\A t \in DOMAIN promises :
       promises'[t].resolved > promises[t].resolved =>
         /\ \E cb \in rafQueue :
              /\ cb.token = t /\ cb.due /\ cb.sinceStart >= cb.total
              /\ \A i \in 1..pathCount' : domD'[i] = RestShape(cb.opened)
         /\ ~isAnimating'
         /\ ~RunActive'
         /\ pathCount' >= 1]_vars

C2_Witness == last.op = "tick" /\ last.resolved # NoRaf /\ pathCount >= 1 /\ ~isAnimating

\* a callback that is due is run: the steps that do so are the steps of tick
frameFires == \E cb \in rafQueue, again \in BOOLEAN : cb.due /\ runsCallback(cb, again)

\* the frame clock keeps firing and time keeps advancing
SpecLive ==
  /\ Init
  /\ [][Next]_vars
  /\ WF_rafQueue(frameFires)
  /\ WF_vars(\E dt \in 1..MaxDt : advance(dt))

\* C3: an accepted run ends: the driver returns to idle; unless stopIfActive,
\* destroy or init cancelled the run, it does so on the terminal frame, where
\* the promise of the run is resolved and its callback is gone; no promise is
\* resolved twice.
C3_RunCompletes ==
  /\ [](\A t \in DOMAIN promises : promises[t].resolved <= 1)
  /\ [][(isAnimating /\ ~isAnimating') =>
          \/ init \/ stopIfActive \/ destroy
          \/ \E t \in DOMAIN promises :
               /\ t = rafId
               /\ promises[t].resolved = 0
               /\ promises'[t].resolved = 1
               /\ ~\E cb \in rafQueue' : cb.token = t]_vars
  /\ isAnimating ~> ~isAnimating

C3_Witness ==
  /\ last.op = "tick"
  /\ last.resolved \in DOMAIN promises
  /\ promises[last.resolved].resolved = 1
  /\ promises[last.resolved].cancelledBy = ""
  /\ rafQueue = {}
  /\ ~isAnimating

\* C4: when a run completes, the element and the cache of every layer hold
\* render(all-zero heights, opened) for the flag of that run, whatever the wave
\* profile and the amplitude; no callback of that run is left, and no frame of a
\* completed run changes a string.
C4_RestShapeAtCompletion ==
  /\ [](last.resolved # NoRaf =>
          /\ \A i \in 1..pathCount :
               domD[i] = RestShape(last.opened) /\ prevPathD[i] = RestShape(last.opened)
          /\ ~\E cb \in rafQueue : cb.token = last.resolved)
  /\ [][\A h \in 1..MaxToken :
          (tick(h) /\ resolvedCount(h) >= 1) => UNCHANGED <<domD, prevPathD>>]_vars

C4_Witness ==
  /\ last.op = "tick"
  /\ last.resolved # NoRaf
  /\ last.writes >= 1
  /\ pathCount = MaxLayers
  /\ \A i \in 1..pathCount : prevPathD[i] = RestShape(last.opened)

\* the run with token h was cancelled, or a newer run has started
Superseded(h) ==
  /\ h \in DOMAIN promises
  /\ \/ promises[h].cancelledBy # ""
     \/ \E t \in DOMAIN promises : t > h

\* C5: a frame callback of a cancelled or superseded run has no effect when it
\* fires: no attribute, cache or height buffer changes, it is not scheduled
\* again, the idle/running state stays, and no promise is resolved.
C5_StaleCallbackIsNoOp ==
  [][\A h \in 1..MaxToken :
       (tick(h) /\ Superseded(h)) =>
         /\ UNCHANGED <<domD, prevPathD, yBuffers, baseWave, rafId, animToken,
                        isOpenState, svg, pathCount, promises>>
         /\ ~\E cb \in rafQueue' : cb.token = h]_vars

C5_Witness == last.op = "tick" /\ last.stale /\ isAnimating /\ last.token < rafId

\* C6: the promise of a run cancelled by stopIfActive is never resolved.
C6_StoppedRunNeverResolves ==
  \A t \in DOMAIN promises :
    promises[t].cancelledBy = "stopIfActive" => promises[t].resolved = 0

C6_Witness ==
  /\ last.resolved # NoRaf
  /\ \E t \in DOMAIN promises :
       /\ promises[t].cancelledBy = "stopIfActive"
       /\ promises[t].resolved = 0
       /\ t < last.resolved
       /\ ~\E cb \in rafQueue : cb.token = t

\* the step is an accepted open, close or toggle
AcceptedCall == last'.op = "call" /\ last'.accepted

\* C7 as stated: stopIfActive during a run changes no height buffer and no
\* string, and they stay unchanged until the next accepted open, close or
\* toggle, or init.
C7_Original ==
  /\ [][(stopIfActive /\ isAnimating) => UNCHANGED <<yBuffers, prevPathD, domD>>]_vars
  /\ [][(stopped /\ ~AcceptedCall /\ ~init) => UNCHANGED <<yBuffers, prevPathD, domD>>]_vars

\* C7: stopIfActive during a run changes no height buffer and no string, and
\* they stay unchanged until the next accepted open, close or toggle, init, or
\* destroy (which releases the buffers and the cache).
C7_StopLeavesPartialShape ==
  /\ [][(stopIfActive /\ isAnimating) => UNCHANGED <<yBuffers, prevPathD, domD>>]_vars
  /\ [][(stopped /\ ~AcceptedCall /\ ~init /\ ~destroy) =>
          UNCHANGED <<yBuffers, prevPathD, domD>>]_vars

C7_Witness ==
  /\ stopped
  /\ last.op = "tick"
  /\ last.stale
  /\ last.token \in DOMAIN promises
  /\ promises[last.token].cancelledBy = "stopIfActive"
  /\ \E i \in 1..pathCount : domD[i] # RestShape(TRUE) /\ domD[i] # RestShape(FALSE)

\* the heights and the string of a layer at local progress 0
StartHeights == [j \in 1..pointCount |-> PERCENT_MAX * 1000]

\* C8: after stopIfActive has cancelled a run the driver is idle; the next
\* open, close or toggle is accepted and its first frame puts every layer at
\* local progress 0 (all heights 100) with the flag of the new run; the new
\* run completes and resolves its promise.
C8_CleanRestartAfterStop ==
  /\ [](stopped => ~isAnimating)
  /\ [][\A target \in BOOLEAN :
          (stopped /\ call(target)) =>
            /\ last'.accepted
            /\ isAnimating'
            /\ \A i \in 1..pathCount' :
                 /\ yBuffers'[i] = StartHeights
                 /\ domD'[i] = buildCubicPath(StartHeights, target, pointCount)]_vars
  /\ [][(isAnimating /\ ~isAnimating') =>
          \/ init \/ stopIfActive \/ destroy
          \/ \E t \in DOMAIN promises : t = rafId /\ promises'[t].resolved = 1]_vars
  /\ (last.afterStop /\ isAnimating) ~> ~isAnimating

C10_ZeroLayersNoOp ==
  [][noLayers =>
       /\ (open \/ close \/ toggle) =>
            /\ UNCHANGED <<rafId, rafQueue, promises, domD, animToken, baseWave,
                           yBuffers, prevPathD, svg, pathCount>>
            /\ last'.returned
       /\ (stopIfActive \/ destroy) =>
            UNCHANGED <<rafId, rafQueue, promises, domD, baseWave, yBuffers, prevPathD,
                        svg, pathCount, isOpenState>>]_vars

\* C11: with zero layers, open, close and toggle leave isOpened as it was.
C11_ZeroLayersKeepIsOpened ==
  [][(noLayers /\ (open \/ close \/ toggle)) => isOpenState' = isOpenState]_vars

\* round((durationSec + pathDelay * (pathCount - 1)) * 1000), in milliseconds;
\* a time unit is 250 ms, so the product is whole and Math.round keeps it
totalDurationMsOf(duration, delay, count) == (duration + delay * (count - 1)) * 250

\* faulty variant: the cascade delay is left out
totalDurationMsNoDelay == durationSec * 250

\* what totalDurationMs() returns in the current state
totalDurationMs == totalDurationMsOf(durationSec, pathDelay, pathCount)

\* C12: once init has found L >= 1 layers, totalDurationMs() is
\* (duration + delay * (L - 1)) * 1000 ms in every state: before the first run,
\* during a run, after a run and after stopIfActive (1500 for 3 layers, delay
\* 0.25 s, duration 1 s).
C12_TotalDurationWithLayers ==
  /\ (svg /\ pathCount >= 1) =>
       /\ pathCount = docPaths
       /\ totalDurationMs = 250 * durationSec + 250 * pathDelay * (docPaths - 1)
  /\ totalDurationMsOf(4, 1, 3) = 1500

C12_Witness ==
  /\ stopped
  /\ pathCount = 2
  /\ totalDurationMs = 750
  /\ \E t \in DOMAIN promises : promises[t].resolved = 1

\* C13: before init has been called, totalDurationMs() returns 0.
C13_TotalDurationBeforeInit ==
  (animToken = 0 /\ ~svg /\ pathCount = 0) => totalDurationMs = 0

\* clamp((t - d_i) / duration, 0, 1) in thousandths, for layer i (1-based) of
\* the current layers: d_i = delay * (i - 1) opening, delay * (L - i) closing
CascadeLocal(t, i, opened) ==
  LET d == IF opened THEN pathDelay * (i - 1) ELSE pathDelay * (pathCount - i)
  IN  IF t - d <= 0 THEN 0
      ELSE IF t - d >= durationSec THEN 1000
      ELSE ((t - d) * 1000) \div durationSec

\* the heights of every layer are those of its cascade progress at time t
CascadeFrame(t, opened, before, after, wave) ==
  /\ \A i \in 1..pathCount :
       /\ after[i] = fillWaveAtProgress(before[i], CascadeLocal(t, i, opened), wave,
                                        pointCount, amplitude)
       /\ (CascadeLocal(t, i, opened) = 0 /\ Len(wave) = pointCount) =>
            after[i] = [j \in 1..pointCount |-> PERCENT_MAX * 1000]
  /\ \A i, j \in 1..pathCount :
       i < j => IF opened
                THEN CascadeLocal(t, i, opened) >= CascadeLocal(t, j, opened)
                ELSE CascadeLocal(t, i, opened) <= CascadeLocal(t, j, opened)

\* C14: on every frame of a run, the heights of layer i are those of local
\* progress clamp((t - d_i) / duration, 0, 1), d_i = delay * i opening and
\* delay * (L - 1 - i) closing (i 0-based); local progress is non-increasing in
\* i while opening and non-decreasing while closing; a layer at local progress
\* 0 has all heights 100 (wave profile allocated).
C14_CascadeLocalProgress ==
  /\ [][\A h \in 1..MaxToken :
          (tick(h) /\ h = animToken) =>
            \E cb \in rafQueue :
              /\ cb.token = h
              /\ cb.due
              /\ CascadeFrame(Min2(cb.sinceStart, cb.total), cb.opened, yBuffers,
                              yBuffers', baseWave)]_vars
  /\ [][\A target \in BOOLEAN :
          (call(target) /\ ~isAnimating /\ ~noLayers) =>
            CascadeFrame(0, target, yBuffers, yBuffers', baseWave')]_vars

C14_Witness ==
  /\ last.op = "tick"
  /\ ~last.stale
  /\ isAnimating
  /\ pathCount = 2
  /\ \/ /\ last.opened
        /\ yBuffers[2] = [j \in 1..pointCount |-> PERCENT_MAX * 1000]
        /\ \E j \in 1..pointCount : yBuffers[1][j] \in 1..(PERCENT_MAX * 1000 - 1)
     \/ /\ ~last.opened
        /\ yBuffers[1] = [j \in 1..pointCount |-> PERCENT_MAX * 1000]
        /\ \E j \in 1..pointCount : yBuffers[2][j] \in 1..(PERCENT_MAX * 1000 - 1)

\* ---- the frames of one run of a one-layer instance, at chosen local progress ----
\* numberPoints after the clamp of normalizeOptions
RenderPointCounts == 3..8

\* waveAmplitude after the clamp of normalizeOptions
RenderAmplitudes == {0, 30, 100}

\* random01() * 2 * PI in twelfths of a turn
RenderPhases == {0, 2, 3, 9}

\* the local progress a frame can find; on one layer it is the global progress
LocalProgress == {0, 250, 500, 501, 750, 1000}

\* dParts and pointStrings as the constructor leaves them
emptyScratch == [pointStrings |-> <<>>, dParts |-> <<>>]

\* faulty variant: the scratch buffers are not reset
scratchKept(scratch, n) == scratch

\* pointStrings.length = this.pointCount; dParts.length = 0
scratchReset(scratch, n) ==
  [pointStrings |-> [j \in 1..n |-> IF j <= Len(scratch.pointStrings)
                                     THEN scratch.pointStrings[j] ELSE "undefined"],
   dParts |-> <<>>]

\* buildCubicPath on the scratch buffers an earlier call left behind
buildCubicPathFrom(scratch, y, opened, n) ==
  LET s == scratchReset(scratch, n)
      pointStrings == [j \in 1..Max2(Len(s.pointStrings), n) |->
                         IF j <= n THEN fmtY(y[j]) ELSE s.pointStrings[j]]
      dParts == s.dParts
                \o <<"M", "0", pointStrings[1], "C", cpPositions(1, n), pointStrings[1],
                     cpPositions(1, n), pointStrings[2], pPositions(1, n), pointStrings[2]>>
                \o smoothSegments(pointStrings, 2, n)
                \o <<"V", IF opened THEN "100" ELSE "0", "H", "0">>
  IN  [d |-> join(dParts), scratch |-> [pointStrings |-> pointStrings, dParts |-> dParts]]

\* the scratch buffers as the last buildCubicPath call of the previous step left
\* them: that call was for the rest shape (init, terminal frame) or for the
\* layer's heights
scratchLeft ==
  buildCubicPathFrom(emptyScratch,
                     IF last.op = "init" \/ last.localP = 1000
                     THEN flatTopPoints(pointCount) ELSE yBuffers[1],
                     last.opened, pointCount).scratch

\* the instance after new WavePath(opts) and init() on a document with one layer
InitRender ==
  /\ pointCount \in RenderPointCounts
  /\ pathDelay \in Delays
  /\ durationSec \in Durations
  /\ amplitude \in RenderAmplitudes
  /\ isOpenState \in BOOLEAN
  /\ docSvg = TRUE
  /\ docPaths = 1
  /\ svg = TRUE
  /\ pathCount = 1
  /\ yBuffers = allocateCaches(1, pointCount).yBuffers
  /\ prevPathD = <<stableD(isOpenState)>>
  /\ domD = <<stableD(isOpenState)>>
  /\ baseWave = [i \in 1..pointCount |-> 0]
  /\ rafId = NoRaf
  /\ animToken = 1
  /\ rafQueue = {}
  /\ promises = <<>>
  /\ stopped = FALSE
  /\ acceptedTarget = <<>>
  /\ last = [Step("init") EXCEPT !.writes = 1, !.opened = isOpenState]

\* the frame at local progress p of a run with flag opened: the body of
\* renderAt for the layer, and on the terminal frame the rest shape after it
renderLayer(p, opened, wave, scratch) ==
  LET y == fillWaveAtProgress(yBuffers[1], p, wave, pointCount, amplitude)
      b == buildCubicPathFrom(scratch, y, opened, pointCount)
      w1 == setPathD(prevPathD[1], domD[1], b.d)
      rest == buildCubicPathFrom(b.scratch, flatTopPoints(pointCount), opened, pointCount)
      w2 == setPathD(w1.prev, w1.attr, rest.d)
  IN  /\ yBuffers' = <<y>>
      /\ prevPathD' = <<IF p >= 1000 THEN w2.prev ELSE w1.prev>>
      /\ domD' = <<IF p >= 1000 THEN w2.attr ELSE w1.attr>>
      /\ last' = [Step("renderAt") EXCEPT !.opened = opened, !.localP = p,
                    !.writes = w1.wrote + (IF p >= 1000 THEN w2.wrote ELSE 0)]

\* open, close or toggle accepted: the wave is rolled and renderAt(0) is called;
\* the run control (token, frame handle, host queue) is that of Spec and is
\* left as it is here
startRun(target, phase) ==
  /\ last.op = "init" \/ last.localP = 1000
  /\ twelfths(pointCount) \/ phase = 0
  /\ isOpenState' = target
  /\ acceptedTarget' = <<target>>
  /\ baseWave' = rollWaveProfile(baseWave, pointCount, phase)
  /\ renderLayer(0, target, baseWave', scratchLeft)
  /\ UNCHANGED <<cfgVars, svg, pathCount, rafId, animToken, rafQueue, promises, stopped>>

\* a frame callback of the run finds the layer at local progress p
frame(p) ==
  /\ last.op = "renderAt"
  /\ last.localP < 1000
  /\ p >= last.localP
  /\ renderLayer(p, isOpenState, baseWave, scratchLeft)
  /\ UNCHANGED <<cfgVars, acceptedTarget, svg, pathCount, baseWave, isOpenState, rafId, animToken,
                 rafQueue, promises, stopped>>

NextRender ==
  \/ \E target \in BOOLEAN, phase \in RenderPhases : startRun(target, phase)
  \/ \E p \in LocalProgress : frame(p)

SpecRender == InitRender /\ [][NextRender]_vars

\* SKIP_DELTA_P = 0.0015 of the timeline driver, in ten-thousandths of progress
SKIP_DELTA_P == 15

\* C15: within a run, a frame that finds the layer's local progress less than
\* SKIP_DELTA_P away from that of the frame before it, and that is not the
\* terminal frame, leaves the layer's curve string as it is: no attribute write.
C15_NoWriteBelowSkipDelta ==
  [][\A p \in LocalProgress :
       (frame(p) /\ 10 * Abs(p - last.localP) < SKIP_DELTA_P /\ p < 1000)
         => (domD' = domD /\ last'.writes = 0)]_vars

\* C16: in every reachable state every entry of every layer's height buffer is
\* within [PERCENT_MIN, PERCENT_MAX], whatever the local progress, the wave
\* profile and the amplitude.
C16_HeightsWithinRange ==
  \A i \in 1..Len(yBuffers) : \A j \in 1..Len(yBuffers[i]) :
    /\ yBuffers[i][j] >= PERCENT_MIN * 1000
    /\ yBuffers[i][j] <= PERCENT_MAX * 1000

\* the heights of a closed layer: every point at PERCENT_MIN
EndHeights == [j \in 1..pointCount |-> PERCENT_MIN * 1000]

\* C17: the heights at local progress 0 are all 100 and the heights at local
\* progress 1 are all 0, whatever the wave profile and the amplitude: the first
\* frame of a run finds every layer at 0, the terminal frame finds every layer at 1.
C17_FlatAtBothEnds ==
  /\ (last.op = "call" /\ last.accepted) =>
       \A i \in 1..pathCount : yBuffers[i] = StartHeights
  /\ (last.op = "tick" /\ last.resolved # NoRaf) =>
       \A i \in 1..pathCount : yBuffers[i] = EndHeights
  /\ (last.op = "renderAt" /\ last.localP = 0) => yBuffers[1] = StartHeights
  /\ (last.op = "renderAt" /\ last.localP = 1000) => yBuffers[1] = EndHeights

\* scratch buffers as earlier buildCubicPath calls can have left them: never
\* used, used for the previous frame, used for a rest shape or a flat start
ScratchStates ==
  {emptyScratch, scratchLeft}
    \cup {buildCubicPathFrom(emptyScratch, h, o, pointCount).scratch :
            h \in {StartHeights, EndHeights}, o \in BOOLEAN}

\* C18: the curve string is a function of the heights, the opened flag and the
\* geometry: whatever call left the scratch buffers behind, the same heights
\* and flag give the same string, and the string a frame writes is the one
\* that a first call with these heights returns.
C18_RenderIsFunction ==
  /\ [](\A s \in ScratchStates, o \in BOOLEAN :
          buildCubicPathFrom(s, yBuffers[1], o, pointCount).d
            = buildCubicPath(yBuffers[1], o, pointCount))
  /\ [][\A p \in LocalProgress :
          (frame(p) /\ p < 1000) =>
            /\ prevPathD'[1] = buildCubicPath(yBuffers'[1], isOpenState, pointCount)
            /\ (yBuffers'[1] = yBuffers[1] => last'.writes = 0)]_vars

C18_Witness ==
  /\ last.op = "renderAt"
  /\ last.localP = 500
  /\ last.writes = 0
  /\ amplitude = 100
  /\ \E k \in 1..pointCount : baseWave[k] # 0
  /\ domD[1] = buildCubicPath(yBuffers[1], isOpenState, pointCount)

\* the geometry cache of the constructor: pPositions and cpPositions
computeSegmentParams(n) ==
  [pPositions |-> [j \in 1..segmentCount(n) |-> pPositions(j, n)],
   cpPositions |-> [j \in 1..segmentCount(n) |-> cpPositions(j, n)]]

Digits == {"0", "1", "2", "3", "4", "5", "6", "7", "8", "9"}

digitOf(c) == CHOOSE d \in 0..9 : ToString(d) = c

\* the value of a string of decimal digits
RECURSIVE natOf(_)
natOf(s) ==
  IF Len(s) = 0 THEN 0
  ELSE 10 * natOf(SubSeq(s, 1, Len(s) - 1)) + digitOf(SubSeq(s, Len(s), Len(s)))

\* the index of the decimal point of s, 0 when s has none
dotAt(s) ==
  LET at == {k \in 1..Len(s) : SubSeq(s, k, k) = "."}
  IN  IF at = {} THEN 0 ELSE SetMin(at)

\* ten times the number that the text s denotes, s with at most one decimal
tenthsOf(s) ==
  IF dotAt(s) = 0 THEN 10 * natOf(s)
  ELSE 10 * natOf(SubSeq(s, 1, dotAt(s) - 1)) + natOf(SubSeq(s, dotAt(s) + 1, Len(s)))

\* C19: for every point count n in 3..8 the geometry cache holds n - 1 anchor
\* and n - 1 control positions, anchors strictly increasing, controls strictly
\* increasing, each control half a span (span = 100 / (n - 1)) before its
\* anchor up to the rounding of both, and the last anchor is 100.  The instance
\* renders with the cache of its own point count.
C19_GeometryCache ==
  /\ pointCount \in 3..8
  /\ \A n \in 3..8 :
       LET g == computeSegmentParams(n)
           P == [j \in 1..Len(g.pPositions) |-> tenthsOf(g.pPositions[j])]
           C == [j \in 1..Len(g.cpPositions) |-> tenthsOf(g.cpPositions[j])]
       IN  /\ Len(P) = n - 1
           /\ Len(C) = n - 1
           /\ \A j \in 1..(Len(P) - 1) : P[j] < P[j + 1]
           /\ \A j \in 1..(Len(C) - 1) : C[j] < C[j + 1]
           /\ \A j \in 1..Len(C) :
                j <= Len(P) /\ Abs((P[j] - C[j]) * (n - 1) - 10 * (PERCENT_MAX \div 2)) <= n - 1
           /\ g.pPositions[Len(P)] = "100"

C19_Witness ==
  /\ pointCount = 8
  /\ last.op = "renderAt"
  /\ computeSegmentParams(pointCount).pPositions
       = <<"14.3", "28.6", "42.9", "57.1", "71.4", "85.7", "100">>
  /\ computeSegmentParams(pointCount).cpPositions
       = <<"7.1", "21.4", "35.7", "50", "64.3", "78.6", "92.9">>

\* the path commands buildCubicPath pushes between the numbers
Commands == {"M", "C", "S", "V", "H"}

\* the index of the first blank of s, 0 when s has none
blankAt(s) ==
  LET at == {k \in 1..Len(s) : SubSeq(s, k, k) = " "}
  IN  IF at = {} THEN 0 ELSE SetMin(at)

\* the parts that dParts.join(' ') put together
RECURSIVE partsOf(_)
partsOf(s) ==
  IF blankAt(s) = 0 THEN {s}
  ELSE {SubSeq(s, 1, blankAt(s) - 1)} \cup partsOf(SubSeq(s, blankAt(s) + 1, Len(s)))

allDigits(s) == Len(s) >= 1 /\ \A k \in 1..Len(s) : SubSeq(s, k, k) \in Digits

\* a number with no fractional part, or with one decimal that is not 0
oneDecimalText(t) ==
  IF dotAt(t) = 0 THEN allDigits(t)
  ELSE /\ allDigits(SubSeq(t, 1, dotAt(t) - 1))
       /\ Len(t) = dotAt(t) + 1
       /\ SubSeq(t, Len(t), Len(t)) \in (Digits \ {"0"})

\* C20: every number in a curve string written to a layer, the x-positions of
\* anchors and controls and the heights, is printed with at most one decimal,
\* and a whole value without a fractional part.
C20_NumbersHaveOneDecimal ==
  \A i \in 1..Len(domD) :
    domD[i] # "" =>
      \A t \in partsOf(domD[i]) : t \in Commands \/ oneDecimalText(t)

\* C21: the terminal frame of a run is the frame at which the whole cascade is
\* finished: a live frame resolves the run exactly when every layer's local
\* progress is 1, and at any time before total = duration + delay * (L - 1)
\* the layer that is last in the cascade order is still below 1.
C21_TerminalWhenCascadeDone ==
  [][\A h \in 1..MaxToken :
       (tick(h) /\ h = animToken) =>
         \E cb \in rafQueue :
           /\ cb.token = h
           /\ cb.due
           /\ LET t == Min2(cb.sinceStart, cb.total)
                  lastLayer == IF cb.opened THEN pathCount ELSE 1
              IN  /\ cb.total = durationSec + pathDelay * (pathCount - 1)
                  /\ (last'.resolved = h) <=>
                       (\A i \in 1..pathCount : CascadeLocal(t, i, cb.opened) = 1000)
                  /\ (cb.sinceStart >= cb.total) =>
                       (\A i \in 1..pathCount : CascadeLocal(t, i, cb.opened) = 1000)
                  /\ (cb.sinceStart < cb.total) =>
                       /\ CascadeLocal(t, lastLayer, cb.opened) < 1000
                       /\ last'.resolved = NoRaf
                       /\ isAnimating']_vars

\* a run of two layers has ended on its terminal frame with every layer closed
C21_Witness ==
  /\ last.op = "tick"
  /\ last.resolved # NoRaf
  /\ pathCount = 2
  /\ ~isAnimating
  /\ Len(baseWave) = pointCount
  /\ \A i \in 1..pathCount : yBuffers[i] = EndHeights

\* C22: a layer's attribute is written only when the new string differs from
\* the layer's cached string, and whenever the instance holds layers the cached
\* string of each layer is the string its element shows.
C22_CacheMatchesElement ==
  /\ [](~noLayers =>
          /\ Len(prevPathD) = pathCount
          /\ \A i \in 1..pathCount : prevPathD[i] = domD[i])
  /\ [][\A i \in 1..Len(domD) :
          domD'[i] # domD[i] => (~noLayers' /\ prevPathD'[i] = domD'[i])]_vars
  /\ [][(last'.op = "call" \/ (last'.op = "tick" /\ last'.resolved = NoRaf)) =>
          last'.writes = Cardinality({i \in 1..Len(domD) : domD'[i] # domD[i]})]_vars

\* a frame of a run of two layers wrote one layer and skipped the other
C22_Witness ==
  /\ last.op = "tick"
  /\ ~last.stale
  /\ isAnimating
  /\ pathCount = 2
  /\ last.writes = 1
  /\ Len(baseWave) = pointCount
  /\ prevPathD = domD

\* the profile rollWaveProfile computes for one phase: one sample per point
rolledProfile(phase) ==
  [i \in 1..pointCount |-> Mul(waveSin(i, pointCount, phase), envValues(i, pointCount))]

\* C23: the wave profile is rolled once per accepted run, at its start and
\* before the first frame is rendered, and no frame, no stopIfActive() and no
\* rejected open/close/toggle modifies it: every frame and every layer of a run
\* uses the profile rolled at its start.
C23_ProfileRolledOncePerRun ==
  /\ [][(last'.op = "call" /\ last'.accepted) =>
          /\ \E phase \in Phases : baseWave' = rolledProfile(phase)
          /\ \A i \in 1..pathCount :
               yBuffers'[i] = fillWaveAtProgress(yBuffers[i], CascadeLocal(0, i, last'.opened),
                                                 baseWave', pointCount, amplitude)]_vars
  /\ [][(\/ last'.op \in {"tick", "stopIfActive", "advance"}
         \/ (last'.op = "call" /\ ~last'.accepted)) => baseWave' = baseWave]_vars

\* the pending frame callbacks that carry the current run token
currentCallbacks == {cb \in rafQueue : cb.token = animToken}

\* C24: the run token never decreases, an accepted run gets a token greater
\* than every token issued before, at most one pending frame callback carries
\* the current token, and the instance is animating exactly when one does.
C24_TokenIdentifiesTheRun ==
  /\ [](/\ Cardinality(currentCallbacks) <= 1
        /\ isAnimating <=> currentCallbacks # {}
        /\ \A cb \in rafQueue : cb.token <= animToken
        /\ \A t \in DOMAIN promises : t <= animToken)
  /\ [][animToken' >= animToken]_vars
  /\ [][(last'.op = "call" /\ last'.accepted) =>
          /\ animToken' > animToken
          /\ rafId' = animToken'
          /\ \A cb \in rafQueue : cb.token < animToken'
          /\ \A t \in DOMAIN promises : t < animToken'
          /\ animToken' \in DOMAIN promises']_vars

\* a second run is animating while a callback of a cancelled run is still pending
C24_Witness ==
  /\ isAnimating
  /\ Cardinality(currentCallbacks) = 1
  /\ \E cb \in rafQueue : cb.token < animToken
  /\ Cardinality(DOMAIN promises) >= 2

\* C25: init() cancels the run that is active, if one is: no later frame
\* callback of that run writes a layer; and when init() returns with at least
\* one layer found, the instance is idle and every layer shows the rest shape
\* of the current isOpened.
C25_InitCancelsAndRests ==
  /\ [][(last'.op = "init" /\ ~noLayers') =>
          /\ ~isAnimating'
          /\ currentCallbacks' = {}
          /\ isOpenState' = isOpenState
          /\ pathCount' = docPaths
          /\ \A i \in 1..pathCount' :
               domD'[i] = RestShape(isOpenState') /\ prevPathD'[i] = domD'[i]]_vars
  /\ [][\A h \in 1..MaxToken :
          (tick(h) /\ cancelledBy(h) = "init") =>
            /\ domD' = domD
            /\ yBuffers' = yBuffers
            /\ last'.writes = 0
            /\ resolvedCount(h) = 0
            /\ promises' = promises]_vars

\* a callback of a run that init() cancelled has fired; the layers still rest
C25_Witness ==
  /\ last.op = "tick"
  /\ last.stale
  /\ cancelledBy(last.token) = "init"
  /\ ~isAnimating
  /\ pathCount >= 1
  /\ \A i \in 1..pathCount : domD[i] = RestShape(isOpenState)

\* C26: on an instance with layers, isOpened is the target of the most
\* recently accepted call, from the moment its run starts: true for open(),
\* false for close(), the negation of its value for toggle(); no frame, no completion and no
\* stopIfActive() changes it, so after a cancelled open() it is true while the
\* layers show a partial shape.
C26_IsOpenedFollowsAcceptedCall ==
  /\ []((~noLayers /\ acceptedTarget # <<>>) => isOpenState = acceptedTarget[1])
  /\ [][(open /\ last'.accepted) => isOpenState']_vars
  /\ [][(close /\ last'.accepted) => ~isOpenState']_vars
  /\ [][(toggle /\ last'.accepted) => isOpenState' = ~isOpenState]_vars
  /\ [][(last'.op = "call" /\ last'.accepted) =>
          (~noLayers /\ isAnimating' /\ isOpenState' = last'.opened)]_vars
  /\ [][(last'.op \in {"tick", "stopIfActive", "advance", "init", "destroy"}
         \/ (last'.op = "call" /\ isAnimating)) => isOpenState' = isOpenState]_vars

\* y = lift + this.baseWave[i] * rippleFactor of fillWaveAtProgress, for every
\* point, as it is before clamp(y, PERCENT_MIN, PERCENT_MAX)
unclampedAt(p, wave, n, amp) ==
  LET pp == IF p <= 0 THEN 0 ELSE IF p >= 1000 THEN 1000 ELSE p
      mp == motionProfile(pp)
      lift == lerp(PERCENT_MAX * 1000, PERCENT_MIN * 1000, mp.pos)
      rf0 == Mul(amp * RIPPLE_GAIN, mp.bell)
      maxUp == PERCENT_MAX * 1000 - lift
      maxDown == lift - PERCENT_MIN * 1000
      limits == {IF waveAt(wave, i) > 0
                   THEN (maxUp * 1000) \div waveAt(wave, i)
                   ELSE (maxDown * 1000) \div (0 - waveAt(wave, i)) :
                 i \in {k \in 1..n : waveAt(wave, k) # 0 /\ waveAt(wave, k) # NaN}}
      rippleFactor == IF limits = {} THEN rf0
                      ELSE Min2(rf0, Max2(0, (SetMin(limits) * 98) \div 100))
  IN  [i \in 1..n |->
         IF waveAt(wave, i) = NaN THEN NaN ELSE lift + Mul(waveAt(wave, i), rippleFactor)]

\* the heights of one layer are the unclamped values, and these are in range
Unclamped(p, wave, heights) ==
  LET u == unclampedAt(p, wave, pointCount, amplitude)
  IN  \A j \in 1..pointCount :
        /\ u[j] >= PERCENT_MIN * 1000
        /\ u[j] <= PERCENT_MAX * 1000
        /\ heights[j] = u[j]

====
